---- MODULE Spec2Model ----
(***************************************************************************)
(* A model of the timing and dispatch core of rustyboi:                    *)
(*   - cpu/timers.rs          the divider and the timer counter            *)
(*   - machine.rs             the memory bus dispatcher                    *)
(*   - pixel_fetcher/...      the background/window fetcher                *)
(* Bytes are 0..255 and addresses 0..65535; Wrapping<u8> arithmetic is     *)
(* written out as "% 256".                                                  *)
(***************************************************************************)
EXTENDS Integers, Sequences, FiniteSets, TLC

VARIABLES
    machine,    \* the Machine: cpu (timers, interrupts, memory), ppu, registers
    last,       \* the last operation: its arguments and what it returned, or
                \* the phase the fetcher was in when it was called
    panicked,   \* TRUE once a panic!/unreachable! has ended the process
    start,      \* the value of machine in the initial state (history)
    fetcher     \* the BackgroundOrWindowFetcher

vars == <<machine, last, panicked, start, fetcher>>

----------------------------------------------------------------------------
(* Bounds of the model.                                                    *)

\* SpecTimers: the most dots one behaviour steps.
MaxCycles == 17
\* SpecRun: the most dots one behaviour steps (1024 is the largest threshold).
MaxRun == 1024

----------------------------------------------------------------------------
(* Bit helpers on bytes.                                                   *)

Pow2(b) == 2 ^ b

\* utils-style test of bit b of byte x (x & (1 << b)) != 0
IsBitSet(x, b) == (x \div Pow2(b)) % 2 = 1

\* x | (1 << b)
SetBit(x, b) == IF IsBitSet(x, b) THEN x ELSE x + Pow2(b)

\* u8::MAX, the largest dots argument of step_dots
U8Max == 255

----------------------------------------------------------------------------
(* cpu/timers.rs                                                           *)

DIVIDE_REGISTER_ADDRESS == \hFF04
TIMER_COUNTER_ADDRESS == \hFF05
TIMER_MODULO_ADDRESS == \hFF06
TIMER_CONTROL_ADDRESS == \hFF07

\* cpu/interrupts.rs is not among the sources: the timer is the third of the
\* five interrupt sources (VBlank, LCD-status, Timer, Serial, Joypad).
TIMER_INTERRUPT_BIT == 2

\* Timers::new
TimersNew ==
    [ divide_register |-> 0,
      divide_register_dots |-> 0,
      divide_register_to_be_reset |-> FALSE,
      timer_counter |-> 0,
      timer_counter_dots |-> 0,
      timer_modulo |-> 0,
      timer_control |-> 0 ]

\* The thresholds in ascending order instead of the hardware's order.
get_timer_counter_threshold_ascending(m) ==
    CASE m.cpu.timers.timer_control % 4 = 0 -> 16
      [] m.cpu.timers.timer_control % 4 = 1 -> 64
      [] m.cpu.timers.timer_control % 4 = 2 -> 256
      [] m.cpu.timers.timer_control % 4 = 3 -> 1024

\* get_timer_counter_threshold: match timer_control & 0x3
get_timer_counter_threshold(m) ==
    CASE m.cpu.timers.timer_control % 4 = 0 -> 1024
      [] m.cpu.timers.timer_control % 4 = 1 -> 16
      [] m.cpu.timers.timer_control % 4 = 2 -> 64
      [] m.cpu.timers.timer_control % 4 = 3 -> 256

\* Interrupts::request_interrupt: set the bit in the interrupt-flag mask
request_interrupt(m, interrupt_bit) ==
    [m EXCEPT !.cpu.interrupts.interrupt_flag = SetBit(@, interrupt_bit)]

\* A divider that counts 255 dots instead of 256.
StepDividerOffByOne(m) ==
    LET dots == (m.cpu.timers.divide_register_dots + 1) % 65536
    IN  IF dots = 255
        THEN [m EXCEPT !.cpu.timers.divide_register_dots = 0,
                       !.cpu.timers.divide_register = (@ + 1) % 256]
        ELSE [m EXCEPT !.cpu.timers.divide_register_dots = dots]

\* step_one_dot, lines 50-54: the divider.  The accumulators are u16; they are
\* far from 65535 in every state reached here.
StepDivider(m) ==
    LET dots == (m.cpu.timers.divide_register_dots + 1) % 65536
    IN  IF dots = 256
        THEN [m EXCEPT !.cpu.timers.divide_register_dots = 0,
                       !.cpu.timers.divide_register = (@ + 1) % 256]
        ELSE [m EXCEPT !.cpu.timers.divide_register_dots = dots]

\* A counter that counts whether or not control bit 2 enables it.
StepCounterAlwaysOn(m) ==
    LET dots == (m.cpu.timers.timer_counter_dots + 1) % 65536
         IN  IF dots # get_timer_counter_threshold(m)
             THEN [m EXCEPT !.cpu.timers.timer_counter_dots = dots]
             ELSE LET counter == (m.cpu.timers.timer_counter + 1) % 256
                  IN  IF counter = 0
                      THEN request_interrupt(
                               [m EXCEPT !.cpu.timers.timer_counter_dots = 0,
                                         !.cpu.timers.timer_counter = m.cpu.timers.timer_modulo],
                               TIMER_INTERRUPT_BIT)
                      ELSE [m EXCEPT !.cpu.timers.timer_counter_dots = 0,
                                     !.cpu.timers.timer_counter = counter]

\* A counter that wraps to 0 and requests the interrupt without reloading.
StepCounterNoReload(m) ==
    IF ~IsBitSet(m.cpu.timers.timer_control, 2)
    THEN m
    ELSE LET dots == (m.cpu.timers.timer_counter_dots + 1) % 65536
         IN  IF dots # get_timer_counter_threshold(m)
             THEN [m EXCEPT !.cpu.timers.timer_counter_dots = dots]
             ELSE LET counter == (m.cpu.timers.timer_counter + 1) % 256
                  IN  IF counter = 0
                      THEN request_interrupt(
                               [m EXCEPT !.cpu.timers.timer_counter_dots = 0,
                                         !.cpu.timers.timer_counter = 0],
                               TIMER_INTERRUPT_BIT)
                      ELSE [m EXCEPT !.cpu.timers.timer_counter_dots = 0,
                                     !.cpu.timers.timer_counter = counter]

\* step_one_dot, lines 56-66: the counter, when control bit 2 is set
StepCounter(m) ==
    IF ~IsBitSet(m.cpu.timers.timer_control, 2)
    THEN m
    ELSE LET dots == (m.cpu.timers.timer_counter_dots + 1) % 65536
         IN  IF dots # get_timer_counter_threshold(m)
             THEN [m EXCEPT !.cpu.timers.timer_counter_dots = dots]
             ELSE LET counter == (m.cpu.timers.timer_counter + 1) % 256
                  IN  IF counter = 0
                      THEN request_interrupt(
                               [m EXCEPT !.cpu.timers.timer_counter_dots = 0,
                                         !.cpu.timers.timer_counter = m.cpu.timers.timer_modulo],
                               TIMER_INTERRUPT_BIT)
                      ELSE [m EXCEPT !.cpu.timers.timer_counter_dots = 0,
                                     !.cpu.timers.timer_counter = counter]

\* Timers::step_one_dot
StepOneDot(m) == StepCounter(StepDivider(m))

\* step_dots, lines 70-72: for _ in 0..dots { step_one_dot }.  The dots are
\* taken one after the other; the run is halved, and the machine after the
\* first half bound by a quantifier, only to keep the evaluation shallow.
RECURSIVE StepDotsLoop(_, _)
StepDotsLoop(m, dots) ==
    CASE dots = 0 -> m
      [] dots = 1 -> StepOneDot(m)
      [] OTHER -> CHOOSE r \in { StepDotsLoop(half, dots - (dots \div 2)) :
                                   half \in {StepDotsLoop(m, dots \div 2)} } : TRUE

\* step_dots, lines 73-76: the pending divider reset
ApplyDividerReset(m) ==
    IF m.cpu.timers.divide_register_to_be_reset
    THEN [m EXCEPT !.cpu.timers.divide_register_to_be_reset = FALSE,
                   !.cpu.timers.divide_register = 0]
    ELSE m

RECURSIVE StepDividerLoop(_, _)
StepDividerLoop(m, dots) ==
    CASE dots = 0 -> m
      [] dots = 1 -> StepDivider(m)
      [] OTHER -> CHOOSE r \in { StepDividerLoop(half, dots - (dots \div 2)) :
                                   half \in {StepDividerLoop(m, dots \div 2)} } : TRUE

\* A step_dots that steps the divider dot by dot but the counter once a call.
StepDotsBatched(m, dots) ==
    ApplyDividerReset(
        IF dots = 0 THEN m ELSE StepCounter(StepDividerLoop(m, dots)))

\* A step_dots that applies the pending reset before the dots instead of after.
StepDotsResetFirst(m, dots) == StepDotsLoop(ApplyDividerReset(m), dots)

\* Timers::step_dots
StepDots(m, dots) == ApplyDividerReset(StepDotsLoop(m, dots))

\* Timers::read_u8; Panic stands for unreachable!()
Panic == 0 - 1

TimersReadU8(m, address) ==
    CASE address = DIVIDE_REGISTER_ADDRESS -> m.cpu.timers.divide_register
      [] address = TIMER_COUNTER_ADDRESS -> m.cpu.timers.timer_counter
      [] address = TIMER_MODULO_ADDRESS -> m.cpu.timers.timer_modulo
      [] address = TIMER_CONTROL_ADDRESS -> m.cpu.timers.timer_control
      [] OTHER -> Panic

\* A write_u8 that resets the divider at once.
TimersWriteU8ResetsAtOnce(m, address, value) ==
    CASE address = DIVIDE_REGISTER_ADDRESS ->
            [panic |-> FALSE, machine |-> [m EXCEPT !.cpu.timers.divide_register = 0]]
      [] address = TIMER_COUNTER_ADDRESS ->
            [panic |-> FALSE, machine |-> [m EXCEPT !.cpu.timers.timer_counter = value]]
      [] address = TIMER_MODULO_ADDRESS ->
            [panic |-> FALSE, machine |-> [m EXCEPT !.cpu.timers.timer_modulo = value]]
      [] address = TIMER_CONTROL_ADDRESS ->
            [panic |-> FALSE, machine |-> [m EXCEPT !.cpu.timers.timer_control = value]]
      [] OTHER -> [panic |-> TRUE, machine |-> m]

\* Timers::write_u8: the result is [panic, machine]
TimersWriteU8(m, address, value) ==
    CASE address = DIVIDE_REGISTER_ADDRESS ->
            [panic |-> FALSE,
             machine |-> [m EXCEPT !.cpu.timers.divide_register_to_be_reset = TRUE]]
      [] address = TIMER_COUNTER_ADDRESS ->
            [panic |-> FALSE, machine |-> [m EXCEPT !.cpu.timers.timer_counter = value]]
      [] address = TIMER_MODULO_ADDRESS ->
            [panic |-> FALSE, machine |-> [m EXCEPT !.cpu.timers.timer_modulo = value]]
      [] address = TIMER_CONTROL_ADDRESS ->
            [panic |-> FALSE, machine |-> [m EXCEPT !.cpu.timers.timer_control = value]]
      [] OTHER -> [panic |-> TRUE, machine |-> m]

----------------------------------------------------------------------------
(* machine.rs                                                              *)

\* A byte array that starts all zero, kept as the cells that are not zero.
EmptyArray == [off \in {} |-> 0]

Load(array, off) == IF off \in DOMAIN array THEN array[off] ELSE 0

Store(array, off, value) ==
    IF value = 0
    THEN [o \in DOMAIN array \ {off} |-> array[o]]
    ELSE [o \in DOMAIN array \cup {off} |-> IF o = off THEN value ELSE array[o]]

\* Machine::new
MachineNew ==
    [ t_cycle_count |-> 0,
      inputs |-> 0,
      cpu |-> [ timers |-> TimersNew,
                interrupts |-> [ interrupt_flag |-> 0, interrupt_enable |-> 0 ],
                memory |-> [ hram |-> EmptyArray ] ],
      ppu |-> [ vram |-> EmptyArray, wram_0 |-> EmptyArray, wram_1 |-> EmptyArray,
                lcd_control |-> 0, ly |-> 0, scx |-> 0, scy |-> 0,
                tile_map0_last_addressing_modes |-> EmptyArray,
                tile_map1_last_addressing_modes |-> EmptyArray ],
      external_ram |-> EmptyArray,
      bgp |-> 0, dmg_boot_rom |-> 0,
      nr11 |-> 0, nr12 |-> 0, nr13 |-> 0, nr14 |-> 0,
      nr50 |-> 0, nr51 |-> 0, nr52 |-> 0,
      sb |-> 0, sc |-> 0, scx |-> 0, scy |-> 0 ]

\* Memory::read_boot_rom: the boot ROM image, a fixture of the model
read_boot_rom(m, address) == (address * 7 + 49) % 256

\* Memory::read_bank_00: the cartridge's first bank, a fixture of the model
read_bank_00(m, address) == (address * 3 + 195) % 256

\* Memory::read_bank_01: the cartridge's second bank, a fixture of the model
read_bank_01(m, offset) == (offset * 5 + 18) % 256

\* Memory::write_bank_00 and Memory::write_bank_01: left to the cartridge's
\* bank control, which changes nothing the dispatcher reads
write_bank_00(m, address, value) == m

write_bank_01(m, offset, value) == m

\* PPU::read_vram, PPU::write_vram
read_vram(m, offset) == Load(m.ppu.vram, offset)

write_vram(m, offset, value) == [m EXCEPT !.ppu.vram = Store(@, offset, value)]

\* PPU::read_wram_0, PPU::write_wram_0
read_wram_0(m, offset) == Load(m.ppu.wram_0, offset)

write_wram_0(m, offset, value) == [m EXCEPT !.ppu.wram_0 = Store(@, offset, value)]

\* PPU::read_wram_1, PPU::write_wram_1
read_wram_1(m, offset) == Load(m.ppu.wram_1, offset)

write_wram_1(m, offset, value) == [m EXCEPT !.ppu.wram_1 = Store(@, offset, value)]

\* Memory::read_hram, Memory::write_hram
read_hram(m, offset) == Load(m.cpu.memory.hram, offset)

write_hram(m, offset, value) == [m EXCEPT !.cpu.memory.hram = Store(@, offset, value)]

\* Inputs::read, Inputs::write: the joypad register, kept as the byte written
inputs_read(m) == m.inputs

inputs_write(m, value) == [m EXCEPT !.inputs = value]

\* PPU::read_lcdc, PPU::write_lcdc
read_lcdc(m) == m.ppu.lcd_control

write_lcdc(m, value) == [m EXCEPT !.ppu.lcd_control = value]

\* PPU::read_ly: the current scanline
read_ly(m) == m.ppu.ly

\* Machine::is_dmg_boot_rom_on
is_dmg_boot_rom_on(m) == m.dmg_boot_rom = 0

\* The range patterns first..=final of the match arms
InRangeExclusive(address, first, final) == first <= address /\ address < final

InRange(address, first, final) == first <= address /\ address <= final

\* read_u8 and write_u8, the first test: is_dmg_boot_rom_on() && address <= 0xFF
BootRomOverlaysOffByOne(m, address) == is_dmg_boot_rom_on(m) /\ address < \h00FF

BootRomOverlays(m, address) == is_dmg_boot_rom_on(m) /\ address <= \h00FF

\* read_u8, the echo arm: address - Wrapping(0x2000)
EchoTargetOffByBank(address) == address - \h1000

EchoTarget(address) == address - \h2000

\* Machine::read_u8; Panic stands for the panic! of the last arm
RECURSIVE read_u8(_, _)
read_u8(m, address) ==
    IF BootRomOverlays(m, address)
    THEN read_boot_rom(m, address)
    ELSE CASE InRange(address, \h0000, \h3FFF) -> read_bank_00(m, address)
           [] InRange(address, \h4000, \h7FFF) -> read_bank_01(m, address - \h4000)
           [] InRange(address, \h8000, \h9FFF) -> read_vram(m, address - \h8000)
           [] InRange(address, \hA000, \hBFFF) -> Load(m.external_ram, address - \hA000)
           [] InRange(address, \hC000, \hCFFF) -> read_wram_0(m, address - \hC000)
           [] InRange(address, \hD000, \hDFFF) -> read_wram_1(m, address - \hD000)
           [] InRange(address, \hE000, \hFDFF) -> read_u8(m, EchoTarget(address))
           [] address = \hFF00 -> inputs_read(m)
           [] address = \hFF01 -> m.sb
           [] address = \hFF02 -> m.sc
           [] InRange(address, \hFF04, \hFF07) -> TimersReadU8(m, address)
           [] address = \hFF0F -> m.cpu.interrupts.interrupt_flag
           [] address = \hFF11 -> m.nr11
           [] address = \hFF12 -> m.nr12
           [] address = \hFF13 -> m.nr13
           [] address = \hFF14 -> m.nr14
           [] address = \hFF24 -> m.nr50
           [] address = \hFF25 -> m.nr51
           [] address = \hFF26 -> m.nr52
           [] address = \hFF40 -> read_lcdc(m)
           [] address = \hFF42 -> m.scy
           [] address = \hFF43 -> m.scx
           [] address = \hFF44 -> read_ly(m)
           [] address = \hFF47 -> m.bgp
           [] address = \hFF50 -> m.dmg_boot_rom
           [] InRange(address, \hFF80, \hFFFE) -> read_hram(m, address - \hFF80)
           [] address = \hFFFF -> m.cpu.interrupts.interrupt_enable
           [] OTHER -> Panic

Stored(m) == [panic |-> FALSE, machine |-> m]

Fatal(m) == [panic |-> TRUE, machine |-> m]

\* Machine::write_u8: the result is [panic, machine]
write_u8(m, address, value) ==
    IF BootRomOverlays(m, address)
    THEN Fatal(m)
    ELSE CASE InRange(address, \h0000, \h3FFF) -> Stored(write_bank_00(m, address, value))
           [] InRange(address, \h4000, \h7FFF) ->
                Stored(write_bank_01(m, address - \h4000, value))
           [] InRange(address, \h8000, \h9FFF) ->
                Stored(write_vram(m, address - \h8000, value))
           [] InRange(address, \hA000, \hBFFF) ->
                Stored([m EXCEPT !.external_ram = Store(@, address - \hA000, value)])
           [] InRange(address, \hC000, \hCFFF) ->
                Stored(write_wram_0(m, address - \hC000, value))
           [] InRange(address, \hD000, \hDFFF) ->
                Stored(write_wram_1(m, address - \hD000, value))
           [] address = \hFF00 -> Stored(inputs_write(m, value))
           [] address = \hFF01 -> Stored([m EXCEPT !.sb = value])
           [] address = \hFF02 -> Stored([m EXCEPT !.sc = value])
           [] InRange(address, \hFF04, \hFF07) -> TimersWriteU8(m, address, value)
           [] address = \hFF0F -> Stored([m EXCEPT !.cpu.interrupts.interrupt_flag = value])
           [] address = \hFF11 -> Stored([m EXCEPT !.nr11 = value])
           [] address = \hFF12 -> Stored([m EXCEPT !.nr12 = value])
           [] address = \hFF13 -> Stored([m EXCEPT !.nr13 = value])
           [] address = \hFF14 -> Stored([m EXCEPT !.nr14 = value])
           [] address = \hFF24 -> Stored([m EXCEPT !.nr50 = value])
           [] address = \hFF25 -> Stored([m EXCEPT !.nr51 = value])
           [] address = \hFF26 -> Stored([m EXCEPT !.nr52 = value])
           [] address = \hFF40 -> Stored(write_lcdc(m, value))
           [] address = \hFF42 -> Stored([m EXCEPT !.scy = value])
           [] address = \hFF43 -> Stored([m EXCEPT !.scx = value])
           [] address = \hFF47 -> Stored([m EXCEPT !.bgp = value])
           [] address = \hFF50 -> Stored([m EXCEPT !.dmg_boot_rom = value])
           [] InRange(address, \hFF80, \hFFFE) ->
                Stored(write_hram(m, address - \hFF80, value))
           [] address = \hFFFF -> Stored([m EXCEPT !.cpu.interrupts.interrupt_enable = value])
           [] OTHER -> Fatal(m)

----------------------------------------------------------------------------
(* pixel_fetcher/background_or_window.rs                                   *)

LCDC_BACKGROUND_TILE_MAP_AREA_BIT == 3

\* The bit of the LCD control register that selects the tile data area.
LCDC_TILE_DATA_AREA_BIT == 4

TILE_MAP_HORIZONTAL_TILE_COUNT == 32

\* tile_row_data: [0; 8], the cells numbered 1..8 here
ZeroRow == [i \in 1..8 |-> 0]

\* BackgroundOrWindowFetcher::new
FetcherNew ==
    [ state |-> "GetTileDelay",
      fifo |-> << >>,
      row_of_pixel_within_tile |-> 0,
      tile_id |-> 0,
      vram_tile_column |-> 0,
      tile_row_data |-> ZeroRow ]

\* prepare_for_new_frame
prepare_for_new_frame(f) ==
    [f EXCEPT !.state = "GetTileDelay",
              !.fifo = << >>,
              !.row_of_pixel_within_tile = 0,
              !.vram_tile_column = 0,
              !.tile_row_data = ZeroRow]

\* prepare_for_new_row
prepare_for_new_row_keeps_column(f) ==
    [f EXCEPT !.state = "GetTileDelay",
              !.fifo = << >>,
              !.row_of_pixel_within_tile = 0,
              !.tile_row_data = ZeroRow]

prepare_for_new_row(f) ==
    [f EXCEPT !.state = "GetTileDelay",
              !.fifo = << >>,
              !.row_of_pixel_within_tile = 0,
              !.vram_tile_column = 0,
              !.tile_row_data = ZeroRow]

\* PPU::get_addressing_mode: tile IDs count up from VRAM offset 0x0000 when
\* the tile data area bit is set, and are signed around 0x1000 otherwise
get_addressing_mode(m) ==
    IF IsBitSet(m.ppu.lcd_control, LCDC_TILE_DATA_AREA_BIT)
    THEN "UnsignedFrom0x8000"
    ELSE "SignedFrom0x9000"

\* The VRAM offset of the first byte of a tile
TileDataOffset(mode, tile_id) ==
    IF mode = "UnsignedFrom0x8000" THEN tile_id * 16
    ELSE IF tile_id < 128 THEN \h1000 + tile_id * 16
    ELSE \h1000 - (256 - tile_id) * 16

\* Fetcher::read_tile_row: one bit plane of the tile's row (two bytes a row,
\* the low plane first), its bit 7 the leftmost pixel, or-ed into bit 0 (low)
\* or bit 1 (high) of the eight colors
read_tile_row(vram, mode, row, tile_id, is_high, tile_row_data) ==
    LET plane == Load(vram, TileDataOffset(mode, tile_id) + (2 * (row % 8))
                                + (IF is_high THEN 1 ELSE 0))
    IN  [i \in 1..8 |->
            IF IsBitSet(plane, 8 - i)
            THEN SetBit(tile_row_data[i], IF is_high THEN 1 ELSE 0)
            ELSE tile_row_data[i]]

\* tick, GetTile: (ppu.read_ly() + ppu.scy).0
VramPixelRow(m) == (read_ly(m) + m.ppu.scy) % 256

\* tick, GetTile: Wrapping(vram_tile_column) * Wrapping(8) + ppu.scx
VramPixelColUnwrapped(f, m) == f.vram_tile_column * 8 + m.ppu.scx

VramPixelCol(f, m) == (((f.vram_tile_column * 8) % 256) + m.ppu.scx) % 256

\* tick, GetTile: tile_row * TILE_MAP_HORIZONTAL_TILE_COUNT + tile_col
TileIndexInItsTileMap(f, m) ==
    (VramPixelRow(m) \div 8) * TILE_MAP_HORIZONTAL_TILE_COUNT
        + (VramPixelCol(f, m) \div 8)

\* tick, GetTile: the tile map the LCD control register selects
VramBaseAddress(m) ==
    IF IsBitSet(m.ppu.lcd_control, LCDC_BACKGROUND_TILE_MAP_AREA_BIT)
    THEN \h1C00
    ELSE \h1800

\* tick, GetTile: vram_base_address + (tile_row << 5) + tile_col
RowAddress(f, m) ==
    VramBaseAddress(m) + (VramPixelRow(m) \div 8) * 32 + (VramPixelCol(f, m) \div 8)

\* tile_map0_last_addressing_modes[index] = mode; a table is kept as the cells
\* recorded since PPU::new
Record(table, index, mode) ==
    [i \in DOMAIN table \cup {index} |-> IF i = index THEN mode ELSE table[i]]

\* tick, GetTile: the addressing mode is recorded for the cell, the tile ID
\* is read
TickGetTile(f, m) ==
    [ fetcher |-> [f EXCEPT !.tile_id = Load(m.ppu.vram, RowAddress(f, m)),
                            !.state = "GetTileDataLowDelay"],
      machine |->
        IF IsBitSet(m.ppu.lcd_control, LCDC_BACKGROUND_TILE_MAP_AREA_BIT)
        THEN [m EXCEPT !.ppu.tile_map0_last_addressing_modes =
                        Record(@, TileIndexInItsTileMap(f, m), get_addressing_mode(m))]
        ELSE [m EXCEPT !.ppu.tile_map1_last_addressing_modes =
                        Record(@, TileIndexInItsTileMap(f, m), get_addressing_mode(m))],
      panic |-> FALSE ]

\* tick, GetTileDataLow (is_high = FALSE) and GetTileDataHigh (TRUE)
TickGetTileData(f, m, is_high) ==
    [ fetcher |->
        [f EXCEPT !.tile_row_data =
                      read_tile_row(m.ppu.vram, get_addressing_mode(m), VramPixelRow(m),
                                    f.tile_id, is_high, f.tile_row_data),
                  !.state = IF is_high THEN "PushRow" ELSE "GetTileDataHighDelay"],
      machine |-> m,
      panic |-> FALSE ]

\* tick, PushRow: the for loop
PushedRowSeven(f) == f.fifo \o [i \in 1..7 |-> [color |-> f.tile_row_data[i]]]

PushedRow(f) == f.fifo \o [i \in 1..8 |-> [color |-> f.tile_row_data[i]]]

\* tick, PushRow with the FIFO empty.  vram_tile_column += 1 is an addition on
\* u8: at 255 it panics where overflow checks are compiled in, after the
\* loop has pushed the row, and wraps to 0 where they are not.
TickPushRow(f, m, overflow_checks) ==
    IF f.vram_tile_column = U8Max /\ overflow_checks
    THEN [ fetcher |-> [f EXCEPT !.fifo = PushedRow(f)], machine |-> m, panic |-> TRUE ]
    ELSE [ fetcher |-> [f EXCEPT !.fifo = PushedRow(f),
                                 !.vram_tile_column = (@ + 1) % 256,
                                 !.tile_row_data = ZeroRow,
                                 !.state = "GetTileDelay"],
           machine |-> m,
           panic |-> FALSE ]

\* tick, PushRow: if self.fifo.len() == 0
FifoTakesRowBelowEight(f) == Len(f.fifo) < 8

FifoTakesRow(f) == Len(f.fifo) = 0

\* tick: the phase after each delay phase
AfterDelay(state) ==
    CASE state = "GetTileDelay" -> "GetTile"
      [] state = "GetTileDataLowDelay" -> "GetTileDataLow"
      [] state = "GetTileDataHighDelay" -> "GetTileDataHigh"

\* BackgroundOrWindowFetcher::tick: the result is [fetcher, machine, panic]
tick(f, m, overflow_checks) ==
    CASE f.state \in {"GetTileDelay", "GetTileDataLowDelay", "GetTileDataHighDelay"} ->
            [ fetcher |-> [f EXCEPT !.state = AfterDelay(f.state)],
              machine |-> m, panic |-> FALSE ]
      [] f.state = "GetTile" -> TickGetTile(f, m)
      [] f.state = "GetTileDataLow" -> TickGetTileData(f, m, FALSE)
      [] f.state = "GetTileDataHigh" -> TickGetTileData(f, m, TRUE)
      [] f.state = "PushRow" ->
            IF FifoTakesRow(f)
            THEN TickPushRow(f, m, overflow_checks)
            ELSE [ fetcher |-> f, machine |-> m, panic |-> FALSE ]

----------------------------------------------------------------------------
(* The operations on the machine, as actions.  A panic ends the process:   *)
(* no operation follows it.                                                *)

\* machine.read_u8(address)
BusRead(address) ==
    /\ ~panicked
    /\ last' = [op |-> "read", address |-> address, value |-> read_u8(machine, address)]
    /\ panicked' = (read_u8(machine, address) = Panic)
    /\ UNCHANGED <<machine, start, fetcher>>

\* machine.write_u8(address, value)
BusWrite(address, value) ==
    /\ ~panicked
    /\ machine' = write_u8(machine, address, value).machine
    /\ panicked' = write_u8(machine, address, value).panic
    /\ last' = [op |-> "write", address |-> address, value |-> value]
    /\ UNCHANGED <<start, fetcher>>

\* Timers::step_dots(machine, dots), called once per instruction; the caller
\* counts the dots in t_cycle_count
ClockStepDots(dots) ==
    /\ ~panicked
    /\ machine' = [StepDots(machine, dots) EXCEPT !.t_cycle_count = @ + dots]
    /\ last' = [op |-> "step_dots", address |-> 0, value |-> dots]
    /\ UNCHANGED <<panicked, start, fetcher>>

\* fetcher.tick(&mut ppu), once per dot
FetcherTick ==
    /\ ~panicked
    /\ \E overflow_checks \in BOOLEAN :
          /\ fetcher' = tick(fetcher, machine, overflow_checks).fetcher
          /\ machine' = tick(fetcher, machine, overflow_checks).machine
          /\ panicked' = tick(fetcher, machine, overflow_checks).panic
    /\ last' = [op |-> "tick", state |-> fetcher.state]
    /\ UNCHANGED start

\* The consumer of the FIFO: fifo.pop_front() of one entry
FifoPop ==
    /\ ~panicked
    /\ Len(fetcher.fifo) > 0
    /\ fetcher' = [fetcher EXCEPT !.fifo = Tail(@)]
    /\ last' = [op |-> "pop", value |-> Head(fetcher.fifo).color]
    /\ UNCHANGED <<machine, panicked, start>>

\* fetcher.prepare_for_new_frame()
PrepareForNewFrame ==
    /\ ~panicked
    /\ fetcher' = prepare_for_new_frame(fetcher)
    /\ last' = [op |-> "prepare_for_new_frame", state |-> fetcher.state]
    /\ UNCHANGED <<machine, panicked, start>>

\* fetcher.prepare_for_new_row()
PrepareForNewRow ==
    /\ ~panicked
    /\ fetcher' = prepare_for_new_row(fetcher)
    /\ last' = [op |-> "prepare_for_new_row", state |-> fetcher.state]
    /\ UNCHANGED <<machine, panicked, start>>

LastNew == [op |-> "new", address |-> 0, value |-> 0]

----------------------------------------------------------------------------
(* SpecBus: reads and writes through the bus dispatcher, from Machine::new. *)

BusValues == {\h00, \h5A}

\* One or two addresses of every kind the dispatcher tells apart.
BusWriteAddresses ==
    { \h0050, \h00FF, \h0150, \h8000, \hA000,
      \hC000, \hCFFF, \hD000, \hDDFF,
      \hE000, \hF000, \hFDFF, \hFE00, \hFF01, \hFF44, \hFF50, \hFF80 }

BusReadAddresses ==
    BusWriteAddresses \cup { \h0000, \h0100, \h3FFF, \h4000, \hEFFF, \hFDFE, \hFF03 }

BusInit ==
    /\ machine = MachineNew
    /\ last = LastNew
    /\ panicked = FALSE
    /\ start = MachineNew
    /\ fetcher = FetcherNew

BusReads == \E address \in BusReadAddresses : BusRead(address)

BusWrites == \E address \in BusWriteAddresses, value \in BusValues : BusWrite(address, value)

BusNext == BusReads \/ BusWrites

SpecBus == BusInit /\ [][BusNext]_vars

----------------------------------------------------------------------------
(* SpecTimers: writes to the four timer registers and step_dots calls of a *)
(* few dots, from a machine that has run for a while with the counter off. *)

\* Dots stepped since the initial state.
Elapsed == machine.t_cycle_count - start.t_cycle_count

\* Machine::new stepped k dots with nothing written: the counter is off, the
\* divider has counted k dots (StepDotsLoop(MachineNew, k) in closed form).
Aged(k) ==
    [MachineNew EXCEPT !.t_cycle_count = k,
                       !.cpu.timers.divide_register = (k \div 256) % 256,
                       !.cpu.timers.divide_register_dots = k % 256]

\* Ages at which the divider reads 0x00, 0x3C and 0xFF, the last two with its
\* accumulator 3 dots from the next increment.
TimerAges == { 0, \h3CFD, \hFFFD }

\* (address, value) of the writes: the divider, the counter at the brink of
\* overflow, two modulos, and the control register off, at 16 dots, at 64 dots.
TimerWrites ==
    { <<DIVIDE_REGISTER_ADDRESS, \hAB>>, <<DIVIDE_REGISTER_ADDRESS, \h00>>,
      <<TIMER_COUNTER_ADDRESS, \hFF>>,
      <<TIMER_MODULO_ADDRESS, \hAB>>, <<TIMER_MODULO_ADDRESS, \h00>>,
      <<TIMER_CONTROL_ADDRESS, \h00>>, <<TIMER_CONTROL_ADDRESS, \h05>>,
      <<TIMER_CONTROL_ADDRESS, \h06>> }

TimerDots == { 0, 1, 4 }

TimersInit ==
    /\ machine \in { Aged(k) : k \in TimerAges }
    /\ last = LastNew
    /\ panicked = FALSE
    /\ start = machine
    /\ fetcher = FetcherNew

TimersWrite == \E w \in TimerWrites : BusWrite(w[1], w[2])

TimersStep ==
    \E dots \in TimerDots : Elapsed + dots <= MaxCycles /\ ClockStepDots(dots)

TimersNext == TimersWrite \/ TimersStep

SpecTimers == TimersInit /\ [][TimersNext]_vars

---------------------------------------------------------------------------------------------------------------------------------------------------
(* SpecRun: step_dots calls only, with nothing written in between, from    *)
(* machines whose timer registers were written before the first dot.       *)
(* SpecOnes: the same, with only step_dots(1).                             *)

\* A machine aged k dots whose timer registers were then written, the
\* interrupt flag holding a bit of another source.
RunState(k, control, counter, pending) ==
    [Aged(k) EXCEPT !.cpu.timers.timer_control = control,
                    !.cpu.timers.timer_counter = counter,
                    !.cpu.timers.timer_modulo = \hAB,
                    !.cpu.timers.divide_register_to_be_reset = pending,
                    !.cpu.interrupts.interrupt_flag = \h01]

\* Ages at which the divider reads 0x3C and 0xFF, its accumulator at 0, at 200
\* or at 255, one dot from the next increment.
RunAges == { \h3C00, \h3CC8, \hFF00, \hFFC8, \hFFFF }

\* The counter off, and on at each of the four thresholds.
RunControls == { \h01, \h04, \h05, \h06, \h07 }

RunCounters == { \h10, \hFF }

RunDots == { 0, 1, 4, 64 }

\* Every control and counter at one age, and every age and pending flag at one
\* control and counter.
RunInit ==
    /\ machine \in { RunState(\h3CC8, control, counter, FALSE) :
                        control \in RunControls, counter \in RunCounters }
                   \cup { RunState(k, \h05, \hFF, pending) :
                            k \in RunAges, pending \in BOOLEAN }
    /\ last = LastNew
    /\ panicked = FALSE
    /\ start = machine
    /\ fetcher = FetcherNew

RunStep ==
    \E dots \in RunDots : Elapsed + dots <= MaxRun /\ ClockStepDots(dots)

SpecRun == RunInit /\ [][RunStep]_vars

OnesInit ==
    /\ machine \in { RunState(k, control, counter, pending) :
                        k \in RunAges, control \in RunControls,
                        counter \in RunCounters, pending \in BOOLEAN }
    /\ last = LastNew
    /\ panicked = FALSE
    /\ start = machine
    /\ fetcher = FetcherNew

OnesStep == Elapsed < U8Max /\ ClockStepDots(1)

SpecOnes == OnesInit /\ [][OnesStep]_vars

----------------------------------------------------------------------------
(* Claims about the timers.                                                *)

timers == machine.cpu.timers

CounterEnabled(m) == IsBitSet(m.cpu.timers.timer_control, 2)

\* C1 (as claimed), under SpecOnes: after n calls of step_dots(1) the timers
\* and the interrupt flags are those of one call step_dots(n) from the same
\* state, whether or not a divider reset was pending in it.
C1_OnesEqualBatchAlways ==
    machine.cpu = StepDots(start, Elapsed).cpu

\* C1 (amended), under SpecOnes: with no divider reset pending at the start,
\* n calls of step_dots(1) and one call step_dots(n) leave the same timers and
\* interrupt flags, for every n in 0..255; with a reset pending and n >= 1
\* they agree in everything but the divider register.
C1_OnesEqualBatch ==
    LET batch == StepDots(start, Elapsed).cpu
    IN  /\ ~start.cpu.timers.divide_register_to_be_reset => machine.cpu = batch
        /\ (start.cpu.timers.divide_register_to_be_reset /\ Elapsed >= 1)
              => machine.cpu = [batch EXCEPT !.timers.divide_register =
                                                timers.divide_register]

\* C1 witness: 255 calls of step_dots(1) with no reset pending at the start,
\* in which the divider was incremented and the counter overflowed.
C1_Witness ==
    /\ Elapsed = U8Max
    /\ ~start.cpu.timers.divide_register_to_be_reset
    /\ timers.divide_register = (start.cpu.timers.divide_register + 1) % 256
    /\ start.cpu.timers.timer_counter = \hFF
    /\ timers.timer_counter > timers.timer_modulo
    /\ IsBitSet(machine.cpu.interrupts.interrupt_flag, TIMER_INTERRUPT_BIT)

\* C2, under SpecTimers: when step_dots(n) returns, for every n including 0,
\* the pending-reset flag is clear, and if it was set when the call started
\* the divider register reads 0.
C2_ResetAppliedOnReturn ==
    [][ last'.op = "step_dots"
        => /\ ~timers.divide_register_to_be_reset'
           /\ timers.divide_register_to_be_reset => timers.divide_register' = 0 ]_vars

\* C2 witness: a call step_dots(4) has returned with the divider at 0 although
\* the divider was 0x3C at the start and its accumulator wrapped during the
\* call, so one of the four dots had incremented it.
C2_Witness ==
    /\ last.op = "step_dots" /\ last.value = 4
    /\ start.cpu.timers.divide_register = \h3C
    /\ timers.divide_register = 0
    /\ timers.divide_register_dots < 4
    /\ ~timers.divide_register_to_be_reset

\* C3, under SpecTimers: a write of any value to 0xFF04 does not panic and
\* changes nothing in the machine but the pending-reset flag, which it sets;
\* a read of 0xFF04 after it returns the divider as it was before the write.
C3_DividerWriteOnlyMarks ==
    [][ (last'.op = "write" /\ last'.address = DIVIDE_REGISTER_ADDRESS)
        => /\ ~panicked'
           /\ machine' = [machine EXCEPT !.cpu.timers.divide_register_to_be_reset = TRUE]
           /\ read_u8(machine', DIVIDE_REGISTER_ADDRESS) = timers.divide_register ]_vars

\* C3 witness: after a write to 0xFF04 the reset is pending and the divider
\* still reads the non-zero value it had.
C3_Witness ==
    /\ last.op = "write" /\ last.address = DIVIDE_REGISTER_ADDRESS
    /\ timers.divide_register_to_be_reset
    /\ read_u8(machine, DIVIDE_REGISTER_ADDRESS) = \hFF

\* The state of C4's example: control 0b101 (on, 16 dots), modulo 0xAB,
\* counter 0xFF, accumulator 0.
C4_Example(m) ==
    /\ m.cpu.timers.timer_control = \h05
    /\ m.cpu.timers.timer_modulo = \hAB
    /\ m.cpu.timers.timer_counter = \hFF
    /\ m.cpu.timers.timer_counter_dots = 0

\* C4, under SpecTimers: with the counter on, the dot that brings the counter
\* accumulator to the threshold while the counter holds 0xFF leaves the
\* counter equal to the modulo (so 0 only if the modulo is 0), the accumulator
\* at 0 and the timer bit set in the interrupt flags, the other bits kept;
\* from the example state 16 dots give counter 0xAB and the timer bit.
C4_OverflowReloadsAndRequests ==
    /\ [][ ( /\ last'.op = "step_dots" /\ last'.value = 1
             /\ CounterEnabled(machine)
             /\ timers.timer_counter_dots + 1 = get_timer_counter_threshold(machine)
             /\ timers.timer_counter = \hFF )
           => /\ timers.timer_counter' = timers.timer_modulo
              /\ timers.timer_modulo' = timers.timer_modulo
              /\ timers.timer_counter_dots' = 0
              /\ machine.cpu.interrupts.interrupt_flag'
                    = SetBit(machine.cpu.interrupts.interrupt_flag, 2) ]_vars
    /\ [] ( C4_Example(machine)
              => LET m == StepDots(machine, 16)
                 IN  /\ m.cpu.timers.timer_counter = \hAB
                     /\ IsBitSet(m.cpu.interrupts.interrupt_flag, 2) )

\* C4 witness: 16 dots after the example state, stepped one dot at a time: the
\* counter holds the modulo 0xAB and the timer interrupt is requested.
C4_Witness ==
    /\ last.op = "step_dots" /\ last.value = 1
    /\ Elapsed = 16
    /\ timers.timer_control = \h05
    /\ timers.timer_counter = \hAB /\ timers.timer_modulo = \hAB
    /\ timers.timer_counter_dots = 0
    /\ machine.cpu.interrupts.interrupt_flag = 4

\* The counter after one increment from the start: the modulo when it wraps.
IncrementedOnce ==
    IF start.cpu.timers.timer_counter = \hFF
    THEN start.cpu.timers.timer_modulo
    ELSE start.cpu.timers.timer_counter + 1

\* The threshold the specification gives for control bits 0-1.
ClaimedThreshold(bits) ==
    CASE bits = 0 -> 1024 [] bits = 1 -> 16 [] bits = 2 -> 64 [] bits = 3 -> 256

\* C5, under SpecRun: from a state with the counter on and its accumulator at
\* 0, with T = 1024, 16, 64, 256 for control bits 0-1 = 00, 01, 10, 11, the
\* counter is unchanged after fewer than T dots and incremented exactly once
\* (reloaded from the modulo when it wraps) after T dots, up to 2T - 1.
C5_ThresholdPerControl ==
    LET T == ClaimedThreshold(start.cpu.timers.timer_control % 4)
    IN  (CounterEnabled(start) /\ start.cpu.timers.timer_counter_dots = 0)
           => /\ Elapsed < T => timers.timer_counter = start.cpu.timers.timer_counter
              /\ (T <= Elapsed /\ Elapsed < 2 * T)
                    => timers.timer_counter = IncrementedOnce

\* C5 witness: control bits 00, 1024 dots stepped, the counter one higher.
C5_Witness ==
    /\ start.cpu.timers.timer_control = \h04
    /\ Elapsed = 1024
    /\ start.cpu.timers.timer_counter = \h10
    /\ timers.timer_counter = \h11
    /\ timers.timer_counter_dots = 0

\* C6, under SpecRun: from a state with no divider reset pending, 256 dots in
\* any split into step_dots calls increment the divider by 1 modulo 256, and
\* the divider accumulator is in 0..255 after every call.
C6_DividerEvery256Dots ==
    /\ timers.divide_register_dots \in 0..255
    /\ (~start.cpu.timers.divide_register_to_be_reset /\ Elapsed = 256)
          => timers.divide_register = (start.cpu.timers.divide_register + 1) % 256

\* C6 witness: 256 dots from a divider of 0xFF, the last call of 64 dots: the
\* divider has wrapped to 0x00.
C6_Witness ==
    /\ ~start.cpu.timers.divide_register_to_be_reset
    /\ start.cpu.timers.divide_register = \hFF
    /\ Elapsed = 256
    /\ last.value = 64
    /\ timers.divide_register = 0

----------------------------------------------------------------------------
(* Claims about the bus dispatcher, checked under SpecBus.                 *)

\* The echo addresses whose mirror the model writes, and the ends of the range.
EchoProbe ==
    { a \in \hE000..\hFDFF : a - \h2000 \in BusWriteAddresses \/ a \in BusReadAddresses }

\* C7: after write(X, v) with X in 0xC000..0xDDFF a read of X + 0x2000 returns
\* v, and in every state read(A) = read(A - 0x2000) for the echo addresses A.
C7_EchoReadsWorkingRam ==
    /\ (last.op = "write" /\ InRange(last.address, \hC000, \hDDFF))
          => /\ ~panicked
             /\ read_u8(machine, last.address + \h2000) = last.value
    /\ \A a \in EchoProbe :
          /\ read_u8(machine, a) = read_u8(machine, a - \h2000)
          /\ read_u8(machine, a) # Panic

\* C7 witness: a non-zero byte written to working RAM bank 1 is read back
\* through the echo.
C7_Witness ==
    /\ last = [op |-> "write", address |-> \hDDFF, value |-> \h5A]
    /\ read_u8(machine, \hFDFF) = \h5A
    /\ read_u8(machine, \hE000) = \h5A

\* C8 (as claimed): a write to an echo address is not fatal, and afterwards the
\* echo address and its working-RAM address both read the byte written.
C8_EchoWriteResolves ==
    (last.op = "write" /\ InRange(last.address, \hE000, \hFDFF))
        => /\ ~panicked
           /\ read_u8(machine, last.address) = last.value
           /\ read_u8(machine, last.address - \h2000) = last.value

\* C9 (as claimed): a write to 0xFF50, of any byte, leaves the overlay off, and
\* the overlay once off stays off; the reads below 0x0100 then go to bank 0.
C9_BootOverlayOffForGood ==
    [][ ( \/ (last'.op = "write" /\ last'.address = \hFF50)
          \/ ~is_dmg_boot_rom_on(machine) )
        => /\ ~is_dmg_boot_rom_on(machine')
           /\ \A a \in \h0000..\h00FF :
                 read_u8(machine', a) = read_bank_00(machine', a) ]_vars

\* C10: while the overlay is on, a write to 0x0000..0x00FF panics and changes
\* nothing in the machine, a read of 0x0000..0x00FF returns the boot ROM's byte
\* and a read of 0x0100..0x3FFF the byte of cartridge bank 0.
C10_BootOverlayWhileOn ==
    /\ [][ ( /\ last'.op = "write" /\ last'.address <= \h00FF
             /\ is_dmg_boot_rom_on(machine) )
           => (panicked' /\ machine' = machine) ]_vars
    /\ [] ( is_dmg_boot_rom_on(machine)
              => /\ \A a \in \h0000..\h00FF :
                       read_u8(machine, a) = read_boot_rom(machine, a)
                 /\ \A a \in BusReadAddresses \cap (\h0100..\h3FFF) :
                       read_u8(machine, a) = read_bank_00(machine, a) )

\* C10 witness: the process has panicked on a write below 0x0100 made with the
\* overlay on, after a read had returned boot ROM content.
C10_Witness ==
    /\ panicked
    /\ is_dmg_boot_rom_on(machine)
    /\ last.op = "write" /\ last.address = \h0050
    /\ read_u8(machine, \h0050) = read_boot_rom(machine, \h0050)
    /\ read_u8(machine, \h0050) # read_bank_00(machine, \h0050)
    /\ read_u8(machine, \h0150) = read_bank_00(machine, \h0150)

----------------------------------------------------------------------------
(* SpecGaps: reads of every address of the I/O page and of the sampled     *)
(* addresses below it, and writes to the addresses no arm handles.         *)

\* The addresses the claim lists as handled by no arm of the dispatcher.
Unhandled ==
    (\hFE00..\hFEFF) \cup {\hFF03} \cup (\hFF08..\hFF0E) \cup {\hFF10}
        \cup (\hFF15..\hFF23) \cup (\hFF27..\hFF3F)
        \cup {\hFF41, \hFF45, \hFF46} \cup (\hFF48..\hFF4F) \cup (\hFF51..\hFF7F)

GapReadAddresses == (\hFE00..\hFFFF) \cup BusReadAddresses

\* Every unhandled address, the scanline register, and two registers that
\* take the write: the serial byte and the boot ROM switch.
GapWriteAddresses == Unhandled \cup { \hFF44, \hFF01, \hFF50 }

GapReads == \E address \in GapReadAddresses : BusRead(address)

GapWrites == \E address \in GapWriteAddresses : BusWrite(address, \h5A)

GapNext == GapReads \/ GapWrites

SpecGaps == BusInit /\ [][GapNext]_vars

\* C11, under SpecGaps: a read or a write of an address handled by no arm
\* (0xFE00..0xFEFF, 0xFF03, 0xFF08..0xFF0E, 0xFF10, 0xFF15..0xFF23,
\* 0xFF27..0xFF3F, 0xFF41, 0xFF45, 0xFF46, 0xFF48..0xFF4F, 0xFF51..0xFF7F) is
\* fatal, a write to the scanline register 0xFF44 is fatal, and a read of any
\* other address is not fatal.
C11_UnhandledIsFatal ==
    [][ /\ (last'.op \in {"read", "write"} /\ last'.address \in Unhandled)
            => (panicked' /\ machine' = machine)
        /\ (last'.op = "write" /\ last'.address = \hFF44)
            => (panicked' /\ machine' = machine)
        /\ (last'.op = "read" /\ last'.address \notin Unhandled)
            => (~panicked' /\ last'.value \in 0..U8Max) ]_vars

\* C11 witness: with the boot ROM switched off, the write to the scanline
\* register was fatal.
C11_Witness ==
    /\ panicked
    /\ ~is_dmg_boot_rom_on(machine)
    /\ last = [op |-> "write", address |-> \hFF44, value |-> \h5A]

----------------------------------------------------------------------------
(* SpecFetch: ticks of the fetcher, pops by the consumer of the FIFO and   *)
(* the two resets, in any order, over a VRAM that holds tiles and maps.    *)

\* Tile data for the tiles 0, 1, 2 (in both addressing modes) and 0x80, and
\* tile IDs 1, 2 and 0x80 in one cell out of four of both tile maps.
VramFixture ==
    [off \in (\h0000..\h002F) \cup (\h0800..\h080F) \cup (\h1000..\h102F)
                \cup { o \in \h1800..\h1FFF : o % 4 = 1 } |->
        IF off < \h1800 THEN ((off * 37 + 11) % 255) + 1
        ELSE IF (off \div 4) % 3 = 0 THEN \h01
        ELSE IF (off \div 4) % 3 = 1 THEN \h02
        ELSE \h80]

\* A machine whose VRAM holds the fixture, at scanline ly, with the scroll
\* and LCD control registers written.
FetchState(ly, scy, scx, lcd_control) ==
    [MachineNew EXCEPT !.ppu.vram = VramFixture,
                       !.ppu.ly = ly,
                       !.ppu.scy = scy,
                       !.ppu.scx = scx,
                       !.ppu.lcd_control = lcd_control]

\* <<ly, scy, scx, lcd_control>>: the first line unscrolled; the last visible
\* line scrolled to the last tile row, the second tile map, unsigned tile
\* IDs; a line whose scrolled row wraps past 255, scrolled by 255 columns.
FetchRegisters ==
    { <<0, 0, 0, \h00>>, <<143, 112, 7, \h18>>, <<100, 157, 255, \h10>> }

FetchInit ==
    /\ machine \in { FetchState(r[1], r[2], r[3], r[4]) : r \in FetchRegisters }
    /\ last = LastNew
    /\ panicked = FALSE
    /\ start = machine
    /\ fetcher = FetcherNew

FetchNext == FetcherTick \/ FifoPop \/ PrepareForNewFrame \/ PrepareForNewRow

SpecFetch == FetchInit /\ [][FetchNext]_vars

\* The phase is one of the seven, the FIFO holds colors, the registers are
\* bytes.
FetchTypeOK ==
    /\ fetcher.state \in { "GetTileDelay", "GetTile", "GetTileDataLowDelay",
                           "GetTileDataLow", "GetTileDataHighDelay",
                           "GetTileDataHigh", "PushRow" }
    /\ \A i \in 1..Len(fetcher.fifo) : fetcher.fifo[i].color \in 0..3
    /\ \A i \in 1..8 : fetcher.tile_row_data[i] \in 0..3
    /\ fetcher.tile_id \in 0..U8Max
    /\ fetcher.vram_tile_column \in 0..U8Max

----------------------------------------------------------------------------
(* Claims about the fetcher.                                               *)

\* C12, under SpecFetch: a tick in phase PushRow with the FIFO non-empty
\* changes nothing: the phase stays PushRow, the FIFO, the column cursor and
\* the row buffer are as they were, and so on every tick until the consumer
\* has emptied the FIFO.
C12_StallWhileFifoHolds ==
    [][ (last'.op = "tick" /\ fetcher.state = "PushRow" /\ Len(fetcher.fifo) > 0)
            => (fetcher' = fetcher /\ machine' = machine /\ ~panicked') ]_vars

\* C12 witness: a tick taken in PushRow left the fetcher in PushRow with a
\* row fetched and the FIFO partly consumed.
C12_Witness ==
    /\ last = [op |-> "tick", state |-> "PushRow"]
    /\ fetcher.state = "PushRow"
    /\ Len(fetcher.fifo) = 3
    /\ fetcher.tile_row_data # ZeroRow

\* C13, under SpecFetch: whatever the order of ticks, pops and resets, a tick
\* leaves the FIFO as it was or adds 8 entries to an empty FIFO, so the FIFO
\* never holds more than 8 entries.
C13_PushIsAllOrNothing ==
    /\ [](Len(fetcher.fifo) \in 0..8)
    /\ [][ last'.op = "tick" =>
             \/ fetcher'.fifo = fetcher.fifo
             \/ Len(fetcher.fifo) = 0 /\ Len(fetcher'.fifo) = 8 ]_vars

\* C13 witness: a row was pushed after a reset that followed two fetches.
C13_Witness ==
    /\ last = [op |-> "tick", state |-> "PushRow"]
    /\ Len(fetcher.fifo) = 8
    /\ fetcher.vram_tile_column = 1
    /\ Cardinality(DOMAIN machine.ppu.tile_map1_last_addressing_modes) >= 2

\* C15, under SpecFetch: from any phase, FIFO, cursor and row buffer, each
\* of prepare_for_new_frame and prepare_for_new_row leaves the phase at
\* GetTileDelay, the FIFO empty, the column cursor and the row-within-tile
\* counter 0 and the row buffer all zeros, and either would have left the
\* state the other leaves.
C15_ResetsAgree ==
    [][ last'.op \in {"prepare_for_new_frame", "prepare_for_new_row"} =>
          /\ fetcher'.state = "GetTileDelay"
          /\ fetcher'.fifo = << >>
          /\ fetcher'.vram_tile_column = 0
          /\ fetcher'.row_of_pixel_within_tile = 0
          /\ fetcher'.tile_row_data = ZeroRow
          /\ fetcher' = prepare_for_new_frame(fetcher)
          /\ fetcher' = prepare_for_new_row(fetcher)
          /\ ~panicked' ]_vars

\* C15 witness: prepare_for_new_row was called in phase PushRow after the
\* cursor had advanced, with a tile ID fetched.
C15_Witness ==
    /\ last = [op |-> "prepare_for_new_row", state |-> "PushRow"]
    /\ fetcher.state = "GetTileDelay"
    /\ fetcher.tile_id = \h80
    /\ Cardinality(DOMAIN machine.ppu.tile_map0_last_addressing_modes) >= 3

\* The phases in the order the ticks visit them.
NextPhase(state) ==
    CASE state = "GetTileDelay" -> "GetTile"
      [] state = "GetTile" -> "GetTileDataLowDelay"
      [] state = "GetTileDataLowDelay" -> "GetTileDataLow"
      [] state = "GetTileDataLow" -> "GetTileDataHighDelay"
      [] state = "GetTileDataHighDelay" -> "GetTileDataHigh"
      [] state = "GetTileDataHigh" -> "PushRow"
      [] state = "PushRow" -> "GetTileDelay"

\* C14 (as claimed), under SpecFetch: a tick in each of the six phases before
\* PushRow moves to the next phase in the order GetTileDelay, GetTile,
\* GetTileDataLowDelay, GetTileDataLow, GetTileDataHighDelay, GetTileDataHigh,
\* PushRow and leaves the FIFO and the column cursor as they were; the tick in
\* PushRow with the FIFO empty pushes the 8 values of the row buffer in order,
\* advances the column cursor (a byte) by 1, zeroes the row buffer and
\* returns to GetTileDelay.
C14_CycleInOrder ==
    [][ last'.op = "tick" =>
          /\ fetcher.state # "PushRow" =>
                /\ fetcher'.state = NextPhase(fetcher.state)
                /\ fetcher'.fifo = fetcher.fifo
                /\ fetcher'.vram_tile_column = fetcher.vram_tile_column
                /\ ~panicked'
          /\ (fetcher.state = "PushRow" /\ Len(fetcher.fifo) = 0) =>
                /\ fetcher'.fifo = [i \in 1..8 |-> [color |-> fetcher.tile_row_data[i]]]
                /\ fetcher'.vram_tile_column = (fetcher.vram_tile_column + 1) % 256
                /\ fetcher'.tile_row_data = ZeroRow
                /\ fetcher'.state = "GetTileDelay"
                /\ ~panicked' ]_vars

\* The tile-map row the claim gives for the scanline and the vertical scroll.
ClaimedTileRow == ((machine.ppu.ly + machine.ppu.scy) % 256) \div 8

\* The tile-map column the claim gives for the cursor and the horizontal
\* scroll: the cursor moved by the whole tiles scrolled, within the 32 columns.
ClaimedTileCol == (fetcher.vram_tile_column + (machine.ppu.scx \div 8)) % 32

ClaimedCell == 32 * ClaimedTileRow + ClaimedTileCol

ClaimedBase == IF (machine.ppu.lcd_control \div 8) % 2 = 1 THEN \h1C00 ELSE \h1800

\* C19, under SpecFetch: the tick in GetTile computes a tile row and a tile
\* column in 0..31 and a cell in 0..1023 with 8-bit wrapping arithmetic, reads
\* the tile ID at VRAM offset base + 32 * row + column, inside
\* 0x1800..0x1FFF, the base 0x1C00 when bit 3 of the LCD control register is
\* set and 0x1800 otherwise, records the addressing mode for that cell and no
\* other, and moves to GetTileDataLowDelay.
C19_GetTileStaysInMap ==
    [][ (last'.op = "tick" /\ fetcher.state = "GetTile") =>
          /\ VramPixelRow(machine) \div 8 = ClaimedTileRow
          /\ VramPixelCol(fetcher, machine) \div 8 = ClaimedTileCol
          /\ ClaimedTileRow \in 0..31 /\ ClaimedTileCol \in 0..31
          /\ TileIndexInItsTileMap(fetcher, machine) = ClaimedCell
          /\ ClaimedCell \in 0..1023
          /\ VramBaseAddress(machine) = ClaimedBase
          /\ RowAddress(fetcher, machine) = ClaimedBase + ClaimedCell
          /\ RowAddress(fetcher, machine) \in \h1800..\h1FFF
          /\ fetcher' = [fetcher EXCEPT
                            !.tile_id = Load(machine.ppu.vram, ClaimedBase + ClaimedCell),
                            !.state = "GetTileDataLowDelay"]
          /\ \E table \in { "tile_map0_last_addressing_modes",
                            "tile_map1_last_addressing_modes" } :
                /\ DOMAIN machine'.ppu[table] = DOMAIN machine.ppu[table] \cup {ClaimedCell}
                /\ \A cell \in DOMAIN machine.ppu[table] \ {ClaimedCell} :
                      machine'.ppu[table][cell] = machine.ppu[table][cell]
                /\ machine'.ppu[table][ClaimedCell] = get_addressing_mode(machine)
                /\ machine' = [machine EXCEPT !.ppu[table] = machine'.ppu[table]]
          /\ ~panicked' ]_vars

\* C19 witness: the tick in GetTile was taken with the cursor at 255 and the
\* picture scrolled by 255 columns, where the pixel column wraps twice.
C19_Witness ==
    /\ last = [op |-> "tick", state |-> "GetTile"]
    /\ fetcher.state = "GetTileDataLowDelay"
    /\ fetcher.vram_tile_column = U8Max
    /\ machine.ppu.scx = U8Max
    /\ 30 \in DOMAIN machine.ppu.tile_map1_last_addressing_modes

----------------------------------------------------------------------------
(* SpecFetchFair: the fetcher is ticked for ever and the consumer pops for *)
(* ever while the FIFO holds an entry; no reset is called.                 *)

FetchFairNext == FetcherTick \/ FifoPop

SpecFetchFair ==
    /\ FetchInit
    /\ [][FetchFairNext]_vars
    /\ WF_vars(FetcherTick)
    /\ WF_vars(FifoPop)

\* C20 (as claimed), under SpecFetchFair: the fetcher does not stay in PushRow
\* for ever; from every state it pushes a row and returns to GetTileDelay, so
\* that it is in PushRow and in GetTileDelay again and again.
C20_NeverStuckInPushRow ==
    /\ (fetcher.state = "PushRow") ~> (fetcher.state = "GetTileDelay")
    /\ []<>(fetcher.state = "PushRow")
    /\ []<>(fetcher.state = "GetTileDelay")

----------------------------------------------------------------------------
(* Further claims about the timers.                                        *)

\* C16 (as claimed), under SpecTimers: a step_dots call that applies a pending
\* divider reset returns with the divider register and its sub-dot
\* accumulator both 0, whatever the accumulator held, so that the divider is
\* next incremented on the 256th dot after the call.
C16_ResetClearsAccumulator ==
    [][ (last'.op = "step_dots" /\ timers.divide_register_to_be_reset) =>
          /\ machine'.cpu.timers.divide_register = 0
          /\ machine'.cpu.timers.divide_register_dots = 0 ]_vars

\* C17, under SpecTimers: with control bit 2 clear, step_dots(n) leaves the
\* counter, its accumulator, the modulo, the control register and the
\* interrupt flags as they were; the divider and its accumulator count the n
\* dots (the divider reading 0 if its reset was pending).
C17_DisabledCounterIsFrozen ==
    [][ (last'.op = "step_dots" /\ ~CounterEnabled(machine)) =>
          LET total == timers.divide_register * 256 + timers.divide_register_dots
                            + last'.value
          IN  /\ machine'.cpu.timers.timer_counter = timers.timer_counter
              /\ machine'.cpu.timers.timer_counter_dots = timers.timer_counter_dots
              /\ machine'.cpu.timers.timer_modulo = timers.timer_modulo
              /\ machine'.cpu.timers.timer_control = timers.timer_control
              /\ machine'.cpu.interrupts = machine.cpu.interrupts
              /\ machine'.cpu.timers.divide_register_dots = total % 256
              /\ machine'.cpu.timers.divide_register =
                    IF timers.divide_register_to_be_reset
                    THEN 0
                    ELSE (total \div 256) % 256 ]_vars

\* C17 witness: the counter was switched off at the brink of overflow with 4
\* dots in its accumulator, and 4 more dots were stepped: the divider moved
\* from 0x3C to 0x3D, the counter did not.
C17_Witness ==
    /\ last = [op |-> "step_dots", address |-> 0, value |-> 4]
    /\ Elapsed = 8
    /\ timers.timer_control = \h00
    /\ timers.timer_counter = \hFF
    /\ timers.timer_counter_dots = 4
    /\ timers.divide_register = \h3D
    /\ machine.cpu.interrupts.interrupt_flag = 0

\* C18 (as claimed), under SpecTimers: whatever the order of control writes
\* and step_dots calls, the counter's sub-dot accumulator is below the
\* threshold the control bits 0-1 select.
C18_AccumulatorBelowThreshold ==
    timers.timer_counter_dots < get_timer_counter_threshold(machine)

====
